---- MODULE Spec2Model ----
(***************************************************************************)
(* Model of check-codeowners.py: the CODEOWNERS validator run as a CI      *)
(* check on a pull request.  Text is modelled as sequences of one-         *)
(* character strings so that splitting, case folding and the regular       *)
(* expressions are computed as the code computes them.                     *)
(***************************************************************************)
EXTENDS Integers, Sequences, FiniteSets, TLC

(***************************************************************************)
(* Characters and Python's str methods                                     *)
(***************************************************************************)
LowerChars == <<"a","b","c","d","e","f","g","h","i","j","k","l","m",
                "n","o","p","q","r","s","t","u","v","w","x","y","z">>
UpperChars == <<"A","B","C","D","E","F","G","H","I","J","K","L","M",
                "N","O","P","Q","R","S","T","U","V","W","X","Y","Z">>
DigitChars == <<"0","1","2","3","4","5","6","7","8","9">>

Range(s) == {s[i] : i \in DOMAIN s}

IsLower(c) == c \in Range(LowerChars)
IsUpper(c) == c \in Range(UpperChars)
IsDigit(c) == c \in Range(DigitChars)
IsSpace(c) == c \in {" ", "\t", "\n"}

\* str.casefold() / str.lower() on one character (ASCII)
CaseFoldChar(c) ==
    IF IsUpper(c) THEN LowerChars[CHOOSE i \in DOMAIN UpperChars : UpperChars[i] = c]
    ELSE c

\* str.casefold() / str.lower()
CaseFold(s) == [i \in DOMAIN s |-> CaseFoldChar(s[i])]

\* str.isspace(): non-empty and whitespace only
StrIsSpace(s) == Len(s) > 0 /\ \A i \in DOMAIN s : IsSpace(s[i])

\* ''.join([x for x in element if not x.isdigit()])
RECURSIVE StripDigits(_)
StripDigits(s) ==
    IF s = <<>> THEN <<>>
    ELSE IF IsDigit(Head(s)) THEN StripDigits(Tail(s))
    ELSE <<Head(s)>> \o StripDigits(Tail(s))

\* str.split(sep) for a one-character separator: always at least one piece
RECURSIVE SplitFrom(_, _, _)
SplitFrom(s, sep, cur) ==
    IF s = <<>> THEN <<cur>>
    ELSE IF Head(s) = sep THEN <<cur>> \o SplitFrom(Tail(s), sep, <<>>)
    ELSE SplitFrom(Tail(s), sep, Append(cur, Head(s)))

Split(s, sep) == SplitFrom(s, sep, <<>>)

\* list(filter(None, xs)): drop the empty strings
RECURSIVE FilterNone(_)
FilterNone(xs) ==
    IF xs = <<>> THEN <<>>
    ELSE IF Head(xs) = <<>> THEN FilterNone(Tail(xs))
    ELSE <<Head(xs)>> \o FilterNone(Tail(xs))

\* sep.join(xs)
RECURSIVE Join(_, _)
Join(xs, sep) ==
    IF xs = <<>> THEN <<>>
    ELSE IF Len(xs) = 1 THEN xs[1]
    ELSE xs[1] \o <<sep>> \o Join(Tail(xs), sep)

\* the decimal digits of a natural number
RECURSIVE Decimal(_)
Decimal(n) ==
    IF n < 10 THEN <<DigitChars[n + 1]>>
    ELSE Decimal(n \div 10) \o <<DigitChars[(n % 10) + 1]>>

(***************************************************************************)
(* Regular expressions of get_regex, as full matches                       *)
(***************************************************************************)
NonSpace(s) == \A i \in DOMAIN s : ~IsSpace(s[i])
AllLower(s) == \A i \in DOMAIN s : IsLower(s[i])
IsLowerHyphen(c) == IsLower(c) \/ c = "-"
IsLowerDigit(c) == IsLower(c) \/ IsDigit(c)
IsLowerDigitHyphen(c) == IsLower(c) \/ IsDigit(c) \/ c = "-"

EmailDomain == <<"@","s","a","i","l","p","o","i","n","t",".","c","o","m">>

EndsWithDomain(s) ==
    /\ Len(s) >= Len(EmailDomain)
    /\ SubSeq(s, Len(s) - Len(EmailDomain) + 1, Len(s)) = EmailDomain

LocalPart(s) == SubSeq(s, 1, Len(s) - Len(EmailDomain))

\* ^\S*\.[a-z]+\@sailpoint\.com$
FirstElementEmail(s) ==
    /\ EndsWithDomain(s)
    /\ \E k \in DOMAIN LocalPart(s) :
          /\ s[k] = "."
          /\ NonSpace(SubSeq(s, 1, k - 1))
          /\ k < Len(LocalPart(s))
          /\ AllLower(SubSeq(LocalPart(s), k + 1, Len(LocalPart(s))))

\* ^\@\S*[a-z\-]+\/\S+$
FirstElementTeam(s) ==
    /\ Len(s) >= 1 /\ s[1] = "@"
    /\ \E k \in DOMAIN s :
          /\ s[k] = "/"
          /\ k >= 3
          /\ IsLowerHyphen(s[k - 1])
          /\ NonSpace(SubSeq(s, 2, k - 2))
          /\ k < Len(s)
          /\ NonSpace(SubSeq(s, k + 1, Len(s)))

\* ^\S*[a-z0-9]+-[a-z0-9\-]+$
FirstElementCollaborator(s) ==
    \E k \in DOMAIN s :
       /\ s[k] = "-"
       /\ k >= 2
       /\ IsLowerDigit(s[k - 1])
       /\ NonSpace(SubSeq(s, 1, k - 2))
       /\ k < Len(s)
       /\ \A i \in (k + 1)..Len(s) : IsLowerDigitHyphen(s[i])

\* ^[a-z]+\.[a-z]+\@sailpoint\.com$
CodeownerEmail(s) ==
    /\ EndsWithDomain(s)
    /\ \E k \in DOMAIN LocalPart(s) :
          /\ s[k] = "."
          /\ k >= 2
          /\ AllLower(SubSeq(s, 1, k - 1))
          /\ k < Len(LocalPart(s))
          /\ AllLower(SubSeq(LocalPart(s), k + 1, Len(LocalPart(s))))

\* ^\@[a-z\-]+\/[^@]\S+$
CodeownerTeam(s) ==
    /\ Len(s) >= 1 /\ s[1] = "@"
    /\ \E k \in DOMAIN s :
          /\ s[k] = "/"
          /\ k >= 3
          /\ \A i \in 2..(k - 1) : IsLowerHyphen(s[i])
          /\ Len(s) >= k + 2
          /\ s[k + 1] # "@"
          /\ NonSpace(SubSeq(s, k + 2, Len(s)))

\* ^\@[a-z0-9]+-[a-z0-9\-]+$
CodeownerCollaborator(s) ==
    /\ Len(s) >= 1 /\ s[1] = "@"
    /\ \E k \in DOMAIN s :
          /\ s[k] = "-"
          /\ k >= 3
          /\ \A i \in 2..(k - 1) : IsLowerDigit(s[i])
          /\ k < Len(s)
          /\ \A i \in (k + 1)..Len(s) : IsLowerDigitHyphen(s[i])

\* check_codeowner_regex(codeowner, get_regex(regex_type)): the key of the
\* first pattern (email, team, collaborator) that fully matches, or "False"
check_codeowner_regex(codeowner, regex_type) ==
    IF regex_type = "codeowner_regex"
    THEN IF CodeownerEmail(codeowner) THEN "email"
         ELSE IF CodeownerTeam(codeowner) THEN "team"
         ELSE IF CodeownerCollaborator(codeowner) THEN "collaborator"
         ELSE "False"
    ELSE IF FirstElementEmail(codeowner) THEN "email"
         ELSE IF FirstElementTeam(codeowner) THEN "team"
         ELSE IF FirstElementCollaborator(codeowner) THEN "collaborator"
         ELSE "False"

(***************************************************************************)
(* Messages: the f-strings of the program, with their interpolated values  *)
(***************************************************************************)
Msg(text, line, arg, n, list, kind) ==
    [text |-> text, line |-> line, arg |-> arg, n |-> n, list |-> list, kind |-> kind]

NoMessage == Msg("", 0, <<>>, 0, <<>>, "")
NotFoundInPRMessage == Msg("CODEOWNERS File not found in PR.", 0, <<>>, 0, <<>>, "")
NotExistMessage == Msg("CODEOWNERS File does not Exist.", 0, <<>>, 0, <<>>, "")
EmptyFileMessage == Msg("CODEOWNERS File is Empty.", 0, <<>>, 0, <<>>, "")
NoSplatMessage ==
    Msg("CODEOWNERS File Requires 1 Line starting with \"*\".", 0, <<>>, 0, <<>>, "")
LineSyntaxMessage(line, text) ==
    Msg("Line Syntax/Spelling Invalid or No Codeowners Found.", line, text, 0, <<>>, "")
CodeownerSyntaxMessage(line, codeowner) ==
    Msg("Codeowner Syntax or Spelling Incorrect in CODEOWNERS File.", line, codeowner,
        0, <<>>, "")
ValidMessage == Msg("Codeowners in CODEOWNERS File are Valid.", 0, <<>>, 0, <<>>, "")
InvalidOrgMessage(line, org) ==
    Msg("Invalid Org in CODEOWNERS File.", line, org, 0, <<>>, "")
TooManyMembersMessage(line, team, count) ==
    Msg("Too many members in codeowners team. Must be <= 50.", line, team, count, <<>>, "")
ContractorsMessage(line, contractors) ==
    Msg("Contractors Not Allowed to be in CODEOWNER file team or be the CODEOWNER team itself",
        line, <<>>, 0, contractors, "")
NoWriteTeamMessage(line, team) ==
    Msg("Codeowner in CODEOWNERS File does not have Repository Write Permissisons, is a contractors team, or does not exist in the Org",
        line, team, 0, <<>>, "")
NoWriteMemberMessage(line, codeowner, kind) ==
    Msg("Codeowner in CODEOWNERS File does not have Repository Write Permissions or is/has an Unallowed Contractor.",
        line, codeowner, 0, <<>>, kind)

\* the final decision messages of block_pr
fail_message ==
    "Invalid or Missing CODEOWNERS File in both Base and Compare Branches. Cannot Merge."
base_fail_message ==
    "Invalid or Missing CODEOWNERS File in Base Branch. Cannot Merge. Add valid CODEOWNERS File to PR."
base_success_message == "Valid CODEOWNERS File in Base Branch. Will be merged."
cannot_merge_message == "Cannot Merge Invalid Compare Branch CODEOWNERS to Base Branch."
valid_merge_message == "Valid Compare Branch CODEOWNERS will be Merged to Base Branch."

(***************************************************************************)
(* The line parser                                                         *)
(***************************************************************************)
\* get_codeowner_lines_dict: the non-empty lines, numbered from 1 in the
\* order they are kept; a sequence is the dict {1: .., 2: .., ...}
get_codeowner_lines_dict(contents) == FilterNone(Split(contents, "\n"))

check_if_comment_or_header(codeowner_line) ==
    codeowner_line[1] = "#" \/ codeowner_line[1] = "["

separate_line_codeowners(codeowner_line) == FilterNone(Split(codeowner_line, " "))

\* check_for_splat that takes any first element for the wildcard
check_for_splat_any(first_element) == first_element # <<>>

check_for_splat(first_element) == first_element = <<"*">>

\* the dict codeowners_only with one more key
DictPut(d, k, v) == [x \in (DOMAIN d) \cup {k} |-> IF x = k THEN v ELSE d[x]]

EmptyDict == [x \in {} |-> <<>>]

\* the for loop of get_codeowners_only from the key `key` on
RECURSIVE CodeownersOnlyLoop(_, _, _, _)
CodeownersOnlyLoop(content, key, codeowners_only, splat_line) ==
    IF key > Len(content)
    THEN [only |-> codeowners_only, invalid_syntax_line |-> 0, splat_line |-> splat_line]
    ELSE LET value == content[key]
         IN IF value = <<>> \/ check_if_comment_or_header(value) \/ StrIsSpace(value)
            THEN CodeownersOnlyLoop(content, key + 1, codeowners_only, splat_line)
            ELSE LET tokens == separate_line_codeowners(value)
                     splat == IF ~splat_line THEN check_for_splat(tokens[1])
                              ELSE splat_line
                     first_element ==
                         check_codeowner_regex(tokens[1], "first_element_regex")
                 IN IF Len(tokens) < 2
                    THEN [only |-> DictPut(codeowners_only, key, tokens),
                          invalid_syntax_line |-> key, splat_line |-> splat]
                    ELSE IF first_element = "False"
                    THEN CodeownersOnlyLoop(content, key + 1,
                             DictPut(codeowners_only, key, Tail(tokens)), splat)
                    ELSE [only |-> DictPut(codeowners_only, key, tokens),
                          invalid_syntax_line |-> key, splat_line |-> splat]

\* get_codeowners_only with splat_line starting out True
get_codeowners_only_splat_true(codeowners_content) ==
    CodeownersOnlyLoop(codeowners_content, 1, EmptyDict, TRUE)

get_codeowners_only(codeowners_content) ==
    CodeownersOnlyLoop(codeowners_content, 1, EmptyDict, FALSE)

(***************************************************************************)
(* Teams and members                                                       *)
(***************************************************************************)
\* A team object of the hosting API: what team.slug, team.permission,
\* team.get_members() and team.get_teams() give.
TeamObject(slug, permission, members, children) ==
    [slug |-> slug, permission |-> permission, members |-> members, children |-> children]

\* the value None where a team object is expected
NoTeam == TeamObject(<<>>, "none", <<>>, <<>>)

\* the for loop of get_valid_repo_teams: the list grows while it is walked
RECURSIVE ExtendWithChildTeams(_, _)
ExtendWithChildTeams(repo_teams, i) ==
    IF i > Len(repo_teams) THEN repo_teams
    ELSE ExtendWithChildTeams(repo_teams \o repo_teams[i].children, i + 1)

HasWriteAccess(team) == team.permission # "pull" /\ team.permission # "triage"

\* get_valid_repo_teams without the permission filter
get_valid_repo_teams_unfiltered(teams) == ExtendWithChildTeams(teams, 1)

get_valid_repo_teams(teams) ==
    ExtendWithChildTeams(SelectSeq(teams, HasWriteAccess), 1)

\* get_org_members: the logins, case-folded
get_org_members(members) == [i \in DOMAIN members |-> CaseFold(members[i])]

\* get_team_members: the logins as the API gives them
get_team_members(team) == team.members

compare_team_members(team_members, contractors_team_members) ==
    SelectSeq(team_members, LAMBDA member : member \in Range(contractors_team_members))

separate_into_org_team(codeowner) ==
    <<Split(codeowner, "/")[1], Split(codeowner, "/")[2]>>

MaxTeamMembers == 50

TeamsWithSlug(repo_teams, slug) == SelectSeq(repo_teams, LAMBDA team : team.slug = slug)

validate_team_codeowner(login, ln, codeowner, teams, c_team, c_members) ==
    LET codeowner_org == separate_into_org_team(codeowner)[1]
        team == separate_into_org_team(codeowner)[2]
        codeowner_team == TeamsWithSlug(teams, team)
        codeowner_team_members == get_team_members(codeowner_team[1])
    IN IF Tail(codeowner_org) # login
       THEN InvalidOrgMessage(ln, Tail(codeowner_org))
       ELSE IF codeowner_team # <<>>
       THEN IF Len(codeowner_team_members) > MaxTeamMembers
            THEN TooManyMembersMessage(ln, team, Len(codeowner_team_members))
            ELSE IF /\ c_team # NoTeam
                    /\ \/ compare_team_members(codeowner_team_members,
                                               c_members) # <<>>
                       \/ team = c_team.slug
            THEN ContractorsMessage(ln, c_members)
            ELSE NoMessage
       ELSE NoWriteTeamMessage(ln, team)

\* the value None where a string is expected; like the empty string it is falsy
NoneStr == <<>>

\* lines 170-172: the loop binds each stripped element to its loop variable
\* and drops it; the list member_name is left as it was
strip_name_digits(member_name) ==
    LET element == [i \in DOMAIN member_name |-> StripDigits(member_name[i])]
    IN member_name

\* del member_name[-1]
DelLast(xs) == SubSeq(xs, 1, Len(xs) - 1)

MemberNameOf(member) ==
    LET member_name == [i \in DOMAIN Split(member, "-") |->
                            CaseFold(Split(member, "-")[i])]
    IN strip_name_digits(DelLast(member_name))

EmailNameOf(email) ==
    LET email_name == Split(Split(email, "@")[1], ".")
    IN [i \in DOMAIN email_name |-> CaseFold(email_name[i])]

RECURSIVE UsernameLoop(_, _, _)
UsernameLoop(email_name, org_members, i) ==
    IF i > Len(org_members) THEN NoneStr
    ELSE LET member_name == MemberNameOf(org_members[i])
         IN IF Len(member_name) < 2
            THEN UsernameLoop(email_name, org_members, i + 1)
            ELSE IF /\ email_name[1] = member_name[1]
                    /\ email_name[Len(email_name)] = member_name[Len(member_name)]
            THEN <<"@">> \o org_members[i]
            ELSE UsernameLoop(email_name, org_members, i + 1)

get_username_from_email(email, org_members) ==
    UsernameLoop(EmailNameOf(email), org_members, 1)

validate_member_codeowner(ln, codeowner, email, regex_result, members, c_members) ==
    IF \/ codeowner = NoneStr
       \/ Tail(codeowner) \notin Range(members)
       \/ Tail(codeowner) \in Range(c_members)
    THEN NoWriteMemberMessage(ln, IF email # <<>> THEN email ELSE codeowner,
                              regex_result)
    ELSE NoMessage

(***************************************************************************)
(* The decision combiner                                                   *)
(***************************************************************************)
\* determine_branch_fail failing a branch only when it neither exists nor is valid
determine_branch_fail_and(base, compare) ==
    <<DictPut(base, "base_success",
              IF ~base.exists /\ ~base.valid_syntax THEN FALSE ELSE TRUE),
      DictPut(compare, "compare_success",
              IF ~compare.exists /\ ~compare.valid_syntax THEN FALSE ELSE TRUE)>>

determine_branch_fail(base, compare) ==
    <<DictPut(base, "base_success",
              IF ~base.exists \/ ~base.valid_syntax THEN FALSE ELSE TRUE),
      DictPut(compare, "compare_success",
              IF ~compare.exists \/ ~compare.valid_syntax THEN FALSE ELSE TRUE)>>

\* block_pr with the fall-through case blocking instead of allowing
block_pr_blocking(base, compare) ==
    IF ~base.base_success /\ compare.skip
    THEN [message |-> base_fail_message, status |-> 1]
    ELSE IF base.base_success /\ compare.skip
    THEN [message |-> base_success_message, status |-> 0]
    ELSE IF base.base_success /\ compare.compare_success
    THEN [message |-> valid_merge_message, status |-> 0]
    ELSE IF base.base_success /\ ~compare.compare_success
    THEN [message |-> cannot_merge_message, status |-> 1]
    ELSE [message |-> fail_message, status |-> 1]

\* block_pr without the elif of line 245: a valid base with an invalid compare
\* falls through to the valid-merge exit
block_pr_no_cannot_merge(base, compare) ==
    IF ~base.base_success /\ compare.skip
    THEN [message |-> base_fail_message, status |-> 1]
    ELSE IF base.base_success /\ compare.skip
    THEN [message |-> base_success_message, status |-> 0]
    ELSE IF ~base.base_success /\ ~compare.compare_success
    THEN [message |-> fail_message, status |-> 1]
    ELSE [message |-> valid_merge_message, status |-> 0]

\* block_pr: the final message printed and the exit status
block_pr(base, compare) ==
    IF ~base.base_success /\ compare.skip
    THEN [message |-> base_fail_message, status |-> 1]
    ELSE IF base.base_success /\ compare.skip
    THEN [message |-> base_success_message, status |-> 0]
    ELSE IF ~base.base_success /\ ~compare.compare_success
    THEN [message |-> fail_message, status |-> 1]
    ELSE IF base.base_success /\ ~compare.compare_success
    THEN [message |-> cannot_merge_message, status |-> 1]
    ELSE [message |-> valid_merge_message, status |-> 0]

(***************************************************************************)
(* What the hosting API can answer: small sets of files, rosters and teams *)
(***************************************************************************)
MaxLines == 2

Splat == <<"*">>
PathToken == <<"d">>
LoginAB == <<"a","-","b","-","s","p">>
LoginABUpper == <<"A","-","b","-","s","p">>
LoginCD == <<"c","-","d","-","s","p">>
UserAB == <<"@">> \o LoginAB
UserABUpper == <<"@">> \o LoginABUpper
UserCD == <<"@">> \o LoginCD
NoHyphenUser == <<"@","a","b">>
EmailAB == <<"a",".","b">> \o EmailDomain
OrgLogin == <<"o">>
TeamTM == <<"@","o","/","t","m">>

Line(tokens) == Join(tokens, " ")

LineCatalogue ==
    { <<>>,
      <<"#","x">>,
      <<" ">>,
      Line(<<Splat, UserAB>>),
      Line(<<Splat, UserABUpper, UserCD>>),
      Line(<<Splat, NoHyphenUser>>),
      Line(<<PathToken, UserAB>>),
      Line(<<PathToken>>),
      Line(<<UserAB, UserAB>>),
      Line(<<Splat, EmailAB, TeamTM>>) }

\* the texts of at most MaxLines lines over the catalogue
RECURSIVE LineSeqs(_)
LineSeqs(n) ==
    IF n = 0 THEN {<<>>}
    ELSE LET shorter == LineSeqs(n - 1)
         IN shorter \cup {Append(ls, l) : ls \in {x \in shorter : Len(x) = n - 1},
                                          l \in LineCatalogue}

Contents == {Join(ls, "\n") : ls \in LineSeqs(MaxLines) \ {<<>>}}

OrgRosters == { <<LoginAB>>, <<LoginABUpper, LoginCD>> }

\* a roster of n distinct logins u-1, u-2, ...
Roster(n) == [i \in 1..n |-> <<"u","-">> \o Decimal(i)]

ContractorsSlug == <<"c","o","n","t","r","a","c","t","o","r","s">>
ContractorsTeams == { TeamObject(ContractorsSlug, "pull", <<LoginCD>>, <<>>) }

TeamSlugTM == <<"t","m">>
RepoTeamLists ==
    { <<TeamObject(TeamSlugTM, "push", Roster(2), <<>>)>>,
      <<TeamObject(TeamSlugTM, "pull", Roster(2), <<>>)>> }

(***************************************************************************)
(* State of one run of main                                                *)
(***************************************************************************)
VARIABLES
    pc,                    \* the statement of main the run is at
    key,                   \* the branch of the for loop: "base" or "compare"
    org_login,             \* org.login
    base_branch,           \* the dict base_branch
    compare_branch,        \* the dict compare_branch
    codeowners_content,    \* the decoded file of the branch being checked
    codeowners_lines_dict,
    codeowners_only_dict,
    invalid_syntax_line,
    splat_line,
    org_members,
    contractors_team,
    repo_teams,
    contractor_members,
    line,                  \* key of codeowners_only_dict the owner loop is at
    codeowner_i,           \* position of the owner loop in that line
    printed,               \* the final decision messages printed so far
    exit_status,           \* -1 while running, then the exit status
    reads,                 \* the API reads made so far, with their outcome
    input,                 \* arguments of a function checked on its own
    result                 \* its return value

branchVars == <<base_branch, compare_branch>>
parseVars == <<codeowners_content, codeowners_lines_dict, codeowners_only_dict,
               invalid_syntax_line, splat_line>>
rosterVars == <<org_members, contractors_team, repo_teams, contractor_members>>
loopVars == <<line, codeowner_i>>
fnVars == <<input, result>>
vars == <<pc, key, org_login, branchVars, parseVars, rosterVars, loopVars,
          printed, exit_status, reads, fnVars>>

NoInput == [none |-> TRUE]

\* line 266 and line 267 of main
InitialBase == [exists |-> FALSE, valid_syntax |-> FALSE, message |-> NoMessage]
InitialCompare ==
    [exists |-> FALSE, valid_syntax |-> FALSE, skip |-> FALSE, message |-> NoMessage]

\* the locals of one pass of the for loop, before the pass assigns them
LocalsUnset ==
    /\ codeowners_content = <<>>
    /\ codeowners_lines_dict = <<>>
    /\ codeowners_only_dict = EmptyDict
    /\ invalid_syntax_line = 0
    /\ splat_line = FALSE
    /\ org_members = <<>>
    /\ contractors_team = NoTeam
    /\ repo_teams = <<>>
    /\ contractor_members = <<>>
    /\ line = 0
    /\ codeowner_i = 0

localVars == <<codeowners_content, codeowners_lines_dict, codeowners_only_dict,
               invalid_syntax_line, splat_line, org_members, contractors_team,
               repo_teams, contractor_members, line, codeowner_i>>

Init ==
    /\ pc = "load"
    /\ key = "base"
    /\ org_login = <<>>
    /\ base_branch = InitialBase
    /\ compare_branch = InitialCompare
    /\ LocalsUnset
    /\ printed = <<>>
    /\ exit_status = -1
    /\ reads = <<>>
    /\ input = NoInput
    /\ result = NoMessage

Read(op, status) == [op |-> op, key |-> key, status |-> status]

\* an except clause that prints the error and goes on
ReadFailsSwallowed(op) ==
    /\ reads' = Append(reads, Read(op, "error"))
    /\ UNCHANGED <<pc, exit_status, key, org_login, branchVars, parseVars, rosterVars,
                   loopVars, printed, fnVars>>

\* an except clause of a read: print the error and exit(1)
ReadFails(op) ==
    /\ reads' = Append(reads, Read(op, "error"))
    /\ pc' = "exit"
    /\ exit_status' = 1
    /\ UNCHANGED <<key, org_login, branchVars, parseVars, rosterVars, loopVars,
                   printed, fnVars>>

ReadOk(op) ==
    /\ reads' = Append(reads, Read(op, "ok"))
    /\ UNCHANGED <<exit_status, printed, fnVars>>

BranchDict == IF key = "base" THEN base_branch ELSE compare_branch

SetBranchDict(new) ==
    IF key = "base" THEN base_branch' = new /\ UNCHANGED compare_branch
    ELSE compare_branch' = new /\ UNCHANGED base_branch

(***************************************************************************)
(* The steps of main, one per external read                                *)
(***************************************************************************)
\* lines 255-267: load the organization and the repository
LoadOrgRepo ==
    /\ pc = "load"
    /\ \/ ReadFails("get_organization")
       \/ /\ ReadOk("get_organization")
          /\ org_login' = OrgLogin
          /\ base_branch' = InitialBase
          /\ compare_branch' = InitialCompare
          /\ pc' = "check_file"
          /\ UNCHANGED <<key, parseVars, rosterVars, loopVars>>

\* line 278: check_for_codeowners_file_branch, for the base branch
CheckForCodeownersFileBranch ==
    /\ pc = "check_file"
    /\ key = "base"
    /\ \/ ReadFails("get_root_contents")
       \/ /\ ReadOk("get_root_contents")
          /\ \E found \in BOOLEAN :
                IF ~found
                THEN /\ SetBranchDict([BranchDict EXCEPT !.message = NotExistMessage])
                     /\ pc' = "next_branch"
                ELSE /\ SetBranchDict([BranchDict EXCEPT !.exists = TRUE])
                     /\ pc' = "get_contents"
          /\ UNCHANGED <<key, org_login, parseVars, rosterVars, loopVars>>

\* line 273: check_codeowners_file_pr, for the compare branch
CheckCodeownersFilePR ==
    /\ pc = "check_file"
    /\ key = "compare"
    /\ \/ ReadFails("get_pull_commits")
       \/ /\ ReadOk("get_pull_commits")
          /\ \E found \in BOOLEAN :
                IF ~found
                THEN /\ SetBranchDict([BranchDict EXCEPT !.message = NotFoundInPRMessage,
                                                         !.skip = TRUE])
                     /\ pc' = "next_branch"
                ELSE /\ SetBranchDict([BranchDict EXCEPT !.exists = TRUE])
                     /\ pc' = "get_contents"
          /\ UNCHANGED <<key, org_login, parseVars, rosterVars, loopVars>>

\* lines 283-309: fetch the file, number its lines, parse them
GetContents ==
    /\ pc = "get_contents"
    /\ \/ ReadFails("get_contents")
       \/ /\ ReadOk("get_contents")
          /\ \E content \in Contents :
                LET lines_dict == get_codeowner_lines_dict(content)
                    parsed == get_codeowners_only(lines_dict)
                    bad_line == IF parsed.invalid_syntax_line # 0
                                THEN parsed.invalid_syntax_line ELSE 1
                IN /\ codeowners_content' = content
                   /\ codeowners_lines_dict' = lines_dict
                   /\ IF lines_dict = <<>>
                      THEN /\ SetBranchDict([BranchDict EXCEPT
                                                !.message = EmptyFileMessage])
                           /\ pc' = "next_branch"
                           /\ UNCHANGED <<codeowners_only_dict, invalid_syntax_line,
                                          splat_line, line, codeowner_i>>
                      ELSE /\ codeowners_only_dict' = parsed.only
                           /\ invalid_syntax_line' = parsed.invalid_syntax_line
                           /\ splat_line' = parsed.splat_line
                           /\ IF ~parsed.splat_line
                              THEN /\ SetBranchDict([BranchDict EXCEPT
                                                        !.message = NoSplatMessage])
                                   /\ pc' = "next_branch"
                              ELSE IF DOMAIN parsed.only = {}
                                      \/ parsed.invalid_syntax_line # 0
                              THEN /\ SetBranchDict([BranchDict EXCEPT !.message =
                                          LineSyntaxMessage(bad_line, lines_dict[bad_line])])
                                   /\ pc' = "next_branch"
                              ELSE /\ pc' = "org_members"
                                   /\ UNCHANGED branchVars
                           /\ UNCHANGED <<line, codeowner_i>>
          /\ UNCHANGED <<key, org_login, rosterVars>>

\* line 312: get_org_members
GetOrgMembers ==
    /\ pc = "org_members"
    /\ \/ ReadFails("get_members")
       \/ /\ ReadOk("get_members")
          /\ \E members \in OrgRosters : org_members' = get_org_members(members)
          /\ pc' = "contractors_team"
          /\ UNCHANGED <<key, org_login, branchVars, parseVars, contractors_team,
                         repo_teams, contractor_members, loopVars>>

\* line 314: get_org_team('contractors', org); a 404 answer gives None
GetOrgTeam ==
    /\ pc = "contractors_team"
    /\ \/ ReadFails("get_team_by_slug")
       \/ /\ reads' = Append(reads, Read("get_team_by_slug", "404"))
          /\ contractors_team' = NoTeam
          /\ pc' = "repo_teams"
          /\ UNCHANGED <<key, org_login, branchVars, parseVars, org_members, repo_teams,
                         contractor_members, loopVars, exit_status, printed, fnVars>>
       \/ /\ ReadOk("get_team_by_slug")
          /\ \E team \in ContractorsTeams : contractors_team' = team
          /\ pc' = "repo_teams"
          /\ UNCHANGED <<key, org_login, branchVars, parseVars, org_members, repo_teams,
                         contractor_members, loopVars>>

\* the owner loop starting at the last line of the dict
FirstLineLast == CHOOSE k \in DOMAIN codeowners_only_dict :
                     \A j \in DOMAIN codeowners_only_dict : k >= j

FirstLine == CHOOSE k \in DOMAIN codeowners_only_dict :
                 \A j \in DOMAIN codeowners_only_dict : k <= j

\* line 315: get_valid_repo_teams; line 316 without a contractors team
GetValidRepoTeams ==
    /\ pc = "repo_teams"
    /\ \/ ReadFails("get_teams")
       \/ /\ ReadOk("get_teams")
          /\ \E teams \in RepoTeamLists : repo_teams' = get_valid_repo_teams(teams)
          /\ IF contractors_team # NoTeam
             THEN /\ pc' = "contractor_members"
                  /\ UNCHANGED <<contractor_members, loopVars>>
             ELSE /\ contractor_members' = <<>>
                  /\ pc' = "codeowner"
                  /\ line' = FirstLine
                  /\ codeowner_i' = 1
          /\ UNCHANGED <<key, org_login, branchVars, parseVars, org_members,
                         contractors_team>>

\* line 316: get_team_members(contractors_team)
GetContractorMembers ==
    /\ pc = "contractor_members"
    /\ \/ ReadFails("get_team_members")
       \/ /\ ReadOk("get_team_members")
          /\ contractor_members' = get_team_members(contractors_team)
          /\ pc' = "codeowner"
          /\ line' = FirstLine
          /\ codeowner_i' = 1
          /\ UNCHANGED <<key, org_login, branchVars, parseVars, org_members,
                         contractors_team, repo_teams>>

\* lines 322-343 for one codeowner of one line: the message it leaves in
\* branch_dict['message'], empty when the codeowner is valid
CheckOneCodeowner(ln, token, login, members, teams, c_team, c_members) ==
    LET codeowner == CaseFold(token)
        regex_result == check_codeowner_regex(codeowner, "codeowner_regex")
    IN IF regex_result = "False"
       THEN CodeownerSyntaxMessage(ln, codeowner)
       ELSE IF regex_result = "team"
       THEN validate_team_codeowner(login, ln, codeowner, teams, c_team, c_members)
       ELSE IF regex_result = "email"
       THEN validate_member_codeowner(ln, get_username_from_email(codeowner, members),
                                      codeowner, regex_result, members, c_members)
       ELSE validate_member_codeowner(ln, codeowner, <<>>, regex_result, members,
                                      c_members)

\* whether validate_team_codeowner reaches its call of get_team_members
ReadsTeamMembers(token, login, teams) ==
    LET codeowner == CaseFold(token)
    IN /\ check_codeowner_regex(codeowner, "codeowner_regex") = "team"
       /\ Tail(separate_into_org_team(codeowner)[1]) = login
       /\ TeamsWithSlug(teams, separate_into_org_team(codeowner)[2]) # <<>>

LaterLines == {k \in DOMAIN codeowners_only_dict : k > line}

NextLine == CHOOSE k \in LaterLines : \A j \in LaterLines : k <= j

\* AfterCodeowner without line 352: an invalid codeowner leaves valid_syntax alone
AfterCodeownerKeepsValid(branch_dict, message, last) ==
    IF message # NoMessage
    THEN [branch_dict EXCEPT !.message = message]
    ELSE IF ~last
    THEN [branch_dict EXCEPT !.message = message]
    ELSE [branch_dict EXCEPT !.message = ValidMessage, !.valid_syntax = TRUE]

\* lines 326-353: what one codeowner's message does to branch_dict; `last`
\* says the codeowner is the last one of its line
AfterCodeowner(branch_dict, message, last) ==
    IF message # NoMessage
    THEN [branch_dict EXCEPT !.message = message, !.valid_syntax = FALSE]
    ELSE IF ~last
    THEN [branch_dict EXCEPT !.message = message]
    ELSE [branch_dict EXCEPT !.message = ValidMessage, !.valid_syntax = TRUE]

\* lines 319-353: one codeowner of the owner loop
CheckCodeowner ==
    /\ pc = "codeowner"
    /\ LET value == codeowners_only_dict[line]
           token == value[codeowner_i]
           message == CheckOneCodeowner(line, token, org_login, org_members,
                                        repo_teams, contractors_team,
                                        contractor_members)
           calls == ReadsTeamMembers(token, org_login, repo_teams)
           last == codeowner_i = Len(value)
       IN \/ /\ calls
             /\ ReadFails("get_team_members")
          \/ /\ IF calls THEN ReadOk("get_team_members")
                ELSE UNCHANGED <<reads, exit_status, printed, fnVars>>
             /\ SetBranchDict(AfterCodeowner(BranchDict, message, last))
             /\ IF message # NoMessage
                THEN \* break out of both loops
                     /\ pc' = "next_branch"
                     /\ UNCHANGED loopVars
                ELSE IF ~last
                THEN /\ codeowner_i' = codeowner_i + 1
                     /\ UNCHANGED <<pc, line>>
                ELSE IF LaterLines = {}
                THEN pc' = "next_branch" /\ UNCHANGED loopVars
                ELSE /\ line' = NextLine
                     /\ codeowner_i' = 1
                     /\ UNCHANGED pc
             /\ UNCHANGED <<key, org_login, parseVars, rosterVars>>

ResetLocals ==
    /\ codeowners_content' = <<>>
    /\ codeowners_lines_dict' = <<>>
    /\ codeowners_only_dict' = EmptyDict
    /\ invalid_syntax_line' = 0
    /\ splat_line' = FALSE
    /\ org_members' = <<>>
    /\ contractors_team' = NoTeam
    /\ repo_teams' = <<>>
    /\ contractor_members' = <<>>
    /\ line' = 0
    /\ codeowner_i' = 0

\* the for loop with break in place of continue: a failed pass ends the loop
ForNextBreaks ==
    /\ pc = "next_branch"
    /\ IF key = "base" /\ base_branch.valid_syntax
       THEN /\ key' = "compare"
            /\ pc' = "check_file"
            /\ ResetLocals
       ELSE /\ pc' = "decide"
            /\ UNCHANGED <<key, localVars>>
    /\ UNCHANGED <<org_login, branchVars, printed, exit_status, reads, fnVars>>

\* line 270: the for loop moves on; every local of the pass is assigned
\* again before the next pass reads it
ForNext ==
    /\ pc = "next_branch"
    /\ IF key = "base"
       THEN /\ key' = "compare"
            /\ pc' = "check_file"
            /\ ResetLocals
       ELSE /\ pc' = "decide"
            /\ UNCHANGED <<key, localVars>>
    /\ UNCHANGED <<org_login, branchVars, printed, exit_status, reads, fnVars>>

\* lines 356-357: determine_branch_fail, then block_pr prints and exits
Decide ==
    /\ pc = "decide"
    /\ LET branches == determine_branch_fail(base_branch, compare_branch)
           outcome == block_pr(branches[1], branches[2])
       IN /\ base_branch' = branches[1]
          /\ compare_branch' = branches[2]
          /\ printed' = Append(printed, outcome.message)
          /\ exit_status' = outcome.status
    /\ pc' = "exit"
    /\ UNCHANGED <<key, org_login, localVars, reads, fnVars>>

Next ==
    \/ LoadOrgRepo
    \/ CheckForCodeownersFileBranch
    \/ CheckCodeownersFilePR
    \/ GetContents
    \/ GetOrgMembers
    \/ GetOrgTeam
    \/ GetValidRepoTeams
    \/ GetContractorMembers
    \/ CheckCodeowner
    \/ ForNext
    \/ Decide

Spec == Init /\ [][Next]_vars

(***************************************************************************)
(* Properties of a run of main                                             *)
(***************************************************************************)
\* the pass over a branch has ended and its locals are still in place
BranchFinished == pc = "next_branch"

RawLines(content) == Split(content, "\n")

FirstTokenIsSplat(text) ==
    LET tokens == FilterNone(Split(text, " "))
    IN tokens # <<>> /\ tokens[1] = <<"*">>

SplatLines(content) ==
    {i \in DOMAIN RawLines(content) : FirstTokenIsSplat(RawLines(content)[i])}

OnlyEmptyLines(content) == \A i \in DOMAIN RawLines(content) : RawLines(content)[i] = <<>>

BaseValid == base_branch.exists /\ base_branch.valid_syntax
CompareValid == compare_branch.exists /\ compare_branch.valid_syntax

\* C2 as stated: the decision combiner never receives base invalid, compare
\* not skipped and compare valid.
C2_Unreachable ==
    ~(pc = "decide" /\ ~BaseValid /\ ~compare_branch.skip /\ CompareValid)

\* C2 amended: main does hand the combiner base invalid, compare not skipped,
\* compare valid; the run then prints the valid-merge message and exits 0.
C2_InvalidBaseValidCompareAllows ==
    (pc = "exit" /\ printed # <<>> /\ ~BaseValid /\ ~compare_branch.skip /\ CompareValid)
        => (exit_status = 0 /\ printed = <<valid_merge_message>>)

C2_Witness ==
    /\ pc = "exit" /\ printed # <<>>
    /\ ~base_branch.exists /\ ~compare_branch.skip /\ CompareValid

\* C3 as stated: an existing file with no line whose first token is "*" is
\* judged invalid with the "Requires 1 Line" message, empty content included.
C3_NoSplatAlwaysRequiresMessage ==
    (BranchFinished /\ BranchDict.exists /\ SplatLines(codeowners_content) = {})
        => (~BranchDict.valid_syntax /\ BranchDict.message = NoSplatMessage)

\* C3 amended: an existing file with no line whose first token is "*" is judged
\* invalid; its message is the "Requires 1 Line" message when the content has a
\* non-empty line and the "File is Empty" message when it has none.
C3_NoSplatInvalid ==
    (BranchFinished /\ BranchDict.exists /\ SplatLines(codeowners_content) = {})
        => /\ ~BranchDict.valid_syntax
           /\ BranchDict.message = IF OnlyEmptyLines(codeowners_content)
                                   THEN EmptyFileMessage ELSE NoSplatMessage

\* a file without wildcard whose only rule line is otherwise valid
C3_Witness ==
    /\ BranchFinished /\ BranchDict.exists
    /\ codeowners_content = Line(<<PathToken, UserAB>>)
    /\ BranchDict.message = NoSplatMessage

\* C4 as stated: a file is judged valid only if exactly one line begins with "*".
C4_ExactlyOneSplat ==
    (BranchFinished /\ BranchDict.valid_syntax)
        => Cardinality(SplatLines(codeowners_content)) = 1

\* C4 amended: a file is judged valid only if at least one of its lines begins
\* with "*"; a file with zero wildcard lines is judged invalid whatever its owners.
C4_AtLeastOneSplat ==
    (BranchFinished /\ BranchDict.valid_syntax)
        => Cardinality(SplatLines(codeowners_content)) >= 1

C4_Witness ==
    /\ BranchFinished /\ BranchDict.valid_syntax
    /\ Cardinality(SplatLines(codeowners_content)) = 2

\* the lines, by their number in codeowners_lines_dict, that are rule lines
\* with an owner token (a token after the first) failing the strict patterns
IsRuleLine(text) ==
    ~(text = <<>> \/ text[1] = "#" \/ text[1] = "[" \/ StrIsSpace(text))

FailsStrict(token) == check_codeowner_regex(CaseFold(token), "codeowner_regex") = "False"

StrictFailLines ==
    {k \in DOMAIN codeowners_lines_dict :
        /\ IsRuleLine(codeowners_lines_dict[k])
        /\ LET tokens == FilterNone(Split(codeowners_lines_dict[k], " "))
           IN \E i \in 2..Len(tokens) : FailsStrict(tokens[i])}

MinOf(S) == CHOOSE k \in S : \A j \in S : k <= j

PassedSyntaxStage ==
    /\ BranchDict.exists
    /\ codeowners_lines_dict # <<>>
    /\ splat_line
    /\ DOMAIN codeowners_only_dict # {}
    /\ invalid_syntax_line = 0

TeamOrMemberFailure(message) ==
    message.text \in {InvalidOrgMessage(0, <<>>).text,
                      TooManyMembersMessage(0, <<>>, 0).text,
                      ContractorsMessage(0, <<>>).text,
                      NoWriteTeamMessage(0, <<>>).text,
                      NoWriteMemberMessage(0, <<>>, "").text}

C9_FailedReadAborts ==
    /\ \A i \in DOMAIN reads :
          /\ reads[i].status = "error" =>
                /\ i = Len(reads)
                /\ pc = "exit"
                /\ exit_status = 1
                /\ printed = <<>>
          /\ reads[i].status = "404" => reads[i].op = "get_team_by_slug"
    /\ (reads # <<>> /\ reads[Len(reads)].status = "404") =>
          /\ pc = "repo_teams"
          /\ exit_status = -1
          /\ contractors_team = NoTeam
    /\ (pc = "codeowner"
        /\ \E i \in DOMAIN reads : reads[i].status = "404" /\ reads[i].key = key) =>
          contractor_members = <<>>

\* a team roster read fails in the owner loop, after a 404 for the contractors
C9_Witness ==
    /\ pc = "exit" /\ exit_status = 1 /\ printed = <<>>
    /\ reads[Len(reads)] = Read("get_team_members", "error")
    /\ \E i \in DOMAIN reads : reads[i].status = "404" /\ reads[i].key = key

\* the message of codeowner i of line k of the parsed dict
CodeownerMessage(k, i) ==
    CheckOneCodeowner(k, codeowners_only_dict[k][i], org_login, org_members,
                      repo_teams, contractors_team, contractor_members)

FailingLines ==
    {k \in DOMAIN codeowners_only_dict :
        \E i \in DOMAIN codeowners_only_dict[k] : CodeownerMessage(k, i) # NoMessage}

FirstFailingCodeowner(k) ==
    MinOf({i \in DOMAIN codeowners_only_dict[k] : CodeownerMessage(k, i) # NoMessage})

\* C10: a branch that passed the syntax stage ends valid with the "are Valid"
\* message iff every codeowner of every parsed line validates; otherwise it
\* ends invalid with the message of the first failing codeowner of the first
\* failing line.
C10_ValidIffAllCodeownersValid ==
    (BranchFinished /\ PassedSyntaxStage)
        => IF FailingLines = {}
           THEN BranchDict.valid_syntax /\ BranchDict.message = ValidMessage
           ELSE /\ ~BranchDict.valid_syntax
                /\ BranchDict.message =
                      CodeownerMessage(MinOf(FailingLines),
                                       FirstFailingCodeowner(MinOf(FailingLines)))

\* the first line validated, the second codeowner of the second line failed
C10_Witness ==
    /\ BranchFinished /\ PassedSyntaxStage
    /\ FailingLines = {2}
    /\ FirstFailingCodeowner(2) = 2
    /\ ~BranchDict.valid_syntax

(***************************************************************************)
(* The decision combiner on its own, over every combination of flags       *)
(***************************************************************************)
BranchMessages == {ValidMessage, NoSplatMessage}

InitCombiner ==
    /\ pc = "decide"
    /\ key = "compare"
    /\ org_login = OrgLogin
    /\ base_branch \in [exists : BOOLEAN, valid_syntax : BOOLEAN,
                        message : BranchMessages]
    /\ compare_branch \in [exists : BOOLEAN, valid_syntax : BOOLEAN, skip : BOOLEAN,
                           message : BranchMessages]
    /\ LocalsUnset
    /\ printed = <<>>
    /\ exit_status = -1
    /\ reads = <<>>
    /\ input = NoInput
    /\ result = NoMessage

NextCombiner == Decide

SpecCombiner == InitCombiner /\ [][NextCombiner]_vars

\* C1: for every combination of the five flags the combiner prints exactly one
\* decision message and exits with the status of the matching row of the
\* decision table, whatever the branch messages are.
C1_DecisionTable ==
    pc = "exit" =>
        /\ Len(printed) = 1
        /\ printed[1] \in {fail_message, base_fail_message, base_success_message,
                           cannot_merge_message, valid_merge_message}
        /\ exit_status \in {0, 1}
        /\ (~BaseValid /\ compare_branch.skip)
              => (printed[1] = base_fail_message /\ exit_status = 1)
        /\ (BaseValid /\ compare_branch.skip)
              => (printed[1] = base_success_message /\ exit_status = 0)
        /\ (~BaseValid /\ ~compare_branch.skip /\ ~CompareValid)
              => (printed[1] = fail_message /\ exit_status = 1)
        /\ (BaseValid /\ ~compare_branch.skip /\ ~CompareValid)
              => (printed[1] = cannot_merge_message /\ exit_status = 1)
        /\ (BaseValid /\ ~compare_branch.skip /\ CompareValid)
              => (printed[1] = valid_merge_message /\ exit_status = 0)

\* a valid base with an existing compare file of invalid syntax is blocked
C1_Witness ==
    /\ pc = "exit"
    /\ BaseValid /\ ~compare_branch.skip
    /\ compare_branch.exists /\ ~compare_branch.valid_syntax
    /\ printed = <<cannot_merge_message>> /\ exit_status = 1

(***************************************************************************)
(* validate_team_codeowner on its own                                      *)
(***************************************************************************)
ContractorsToken == <<"@","o","/">> \o ContractorsSlug
OtherOrgTeam == <<"@","x","/","t","m">>
TeamTokens == {TeamTM, OtherOrgTeam, ContractorsToken}

TeamRosters ==
    { Roster(1), Roster(MaxTeamMembers), Roster(MaxTeamMembers + 1),
      <<LoginCD>> \o Roster(1) }

ParentSlug == <<"p","a">>
MiddleSlug == <<"m","i">>

\* answers of repo.get_teams(): the team tm directly, one level or two levels
\* below a parent team, or the contractors team with write access
TeamHierarchies ==
    { <<TeamObject(TeamSlugTM, perm, members, <<>>)>> :
          perm \in {"push", "pull", "triage"}, members \in TeamRosters }
    \cup
    { <<TeamObject(ParentSlug, perm, Roster(1),
                   <<TeamObject(TeamSlugTM, "pull", members, <<>>)>>)>> :
          perm \in {"admin", "pull"}, members \in TeamRosters }
    \cup
    { <<TeamObject(ParentSlug, perm, Roster(1),
                   <<TeamObject(MiddleSlug, "pull", Roster(1),
                                <<TeamObject(TeamSlugTM, "pull", members, <<>>)>>)>>)>> :
          perm \in {"admin", "pull"}, members \in TeamRosters }
    \cup
    { <<TeamObject(ContractorsSlug, "push", members, <<>>)>> :
          members \in {<<>>, <<LoginCD>>} }

TeamInputs ==
    [codeowner : TeamTokens,
     teams : TeamHierarchies,
     contractors_team : ContractorsTeams
                        \cup {TeamObject(ContractorsSlug, "pull", <<>>, <<>>), NoTeam}]

InitTeam ==
    /\ pc = "call_get_valid_repo_teams"
    /\ key = "base"
    /\ org_login = OrgLogin
    /\ base_branch = InitialBase
    /\ compare_branch = InitialCompare
    /\ LocalsUnset
    /\ printed = <<>>
    /\ exit_status = -1
    /\ reads = <<>>
    /\ input \in TeamInputs
    /\ result = NoMessage

CallGetOrgTeam ==
    /\ pc = "call_get_org_team"
    /\ contractors_team' = input.contractors_team
    /\ contractor_members' = IF input.contractors_team # NoTeam
                             THEN get_team_members(input.contractors_team) ELSE <<>>
    /\ pc' = "call_validate_team_codeowner"
    /\ UNCHANGED <<key, org_login, branchVars, parseVars, org_members, repo_teams,
                   loopVars, printed, exit_status, reads, fnVars>>

CallGetValidRepoTeams ==
    /\ pc = "call_get_valid_repo_teams"
    /\ repo_teams' = get_valid_repo_teams(input.teams)
    /\ pc' = "call_get_org_team"
    /\ UNCHANGED <<key, org_login, branchVars, parseVars, org_members, contractors_team,
                   contractor_members, loopVars, printed, exit_status, reads, fnVars>>

CallValidateTeamCodeowner ==
    /\ pc = "call_validate_team_codeowner"
    /\ result' = validate_team_codeowner(org_login, 1, input.codeowner, repo_teams,
                                         contractors_team, contractor_members)
    /\ pc' = "return"
    /\ UNCHANGED <<key, org_login, branchVars, parseVars, rosterVars, loopVars,
                   printed, exit_status, reads, input>>

NextTeam == CallGetValidRepoTeams \/ CallGetOrgTeam \/ CallValidateTeamCodeowner

SpecTeam == InitTeam /\ [][NextTeam]_vars

\* the parts of a team token @org/team
TokenOrg(token) ==
    LET slash == MinOf({i \in DOMAIN token : token[i] = "/"})
    IN SubSeq(token, 2, slash - 1)

TokenTeam(token) ==
    LET slash == MinOf({i \in DOMAIN token : token[i] = "/"})
    IN SubSeq(token, slash + 1, Len(token))

WritePermission(team) == team.permission \notin {"pull", "triage"}

\* the teams at most `depth` levels below the teams of the list `teams`
RECURSIVE TeamsBelow(_, _)
TeamsBelow(teams, depth) ==
    IF depth = 0 THEN {}
    ELSE UNION { {teams[i].children[j] : j \in DOMAIN teams[i].children}
                 \cup TeamsBelow(teams[i].children, depth - 1) : i \in DOMAIN teams }

WriteTeams(teams) == SelectSeq(teams, WritePermission)

\* the repository's teams with write access and those at most `depth` below them
EligibleTeams(teams, depth) ==
    Range(WriteTeams(teams)) \cup TeamsBelow(WriteTeams(teams), depth)

MaxDepth == 4

\* the conditions of C5 on the team named by the token, with the teams taken
\* from at most `depth` levels below a team with write access
TeamConditions(depth) ==
    /\ TokenOrg(input.codeowner) = org_login
    /\ \E team \in EligibleTeams(input.teams, depth) :
          /\ team.slug = TokenTeam(input.codeowner)
          /\ Len(team.members) <= 50
          /\ Range(team.members) \cap Range(input.contractors_team.members) = {}
          /\ input.contractors_team # NoTeam => team.slug # input.contractors_team.slug

TooManyIsReported(depth) ==
    \A team \in EligibleTeams(input.teams, depth) :
        (/\ TokenOrg(input.codeowner) = org_login
         /\ team.slug = TokenTeam(input.codeowner)
         /\ Len(team.members) = 51)
            => result = TooManyMembersMessage(1, team.slug, 51)

\* C5 as stated: the team is valid iff org matches, the team has write access
\* itself or is exactly one level below a team that has, has at most 50
\* members, none of them a contractor, and is not the contractors team.
C5_OneLevelBelow ==
    pc = "return" =>
        /\ (result = NoMessage) <=> TeamConditions(1)
        /\ TooManyIsReported(1)

\* C5 amended: as stated, with the team having write access itself or being a
\* descendant, at any depth, of a team that has.
C5_AnyLevelBelow ==
    pc = "return" =>
        /\ (result = NoMessage) <=> TeamConditions(MaxDepth)
        /\ TooManyIsReported(MaxDepth)

\* a team of 50 members two levels below a team with write access is accepted
C5_Witness ==
    /\ pc = "return"
    /\ result = NoMessage
    /\ ~TeamConditions(1)
    /\ \E team \in EligibleTeams(input.teams, MaxDepth) :
          team.slug = TokenTeam(input.codeowner) /\ Len(team.members) = 50

(***************************************************************************)
(* The member check of main's owner loop on its own                        *)
(***************************************************************************)
MaxRoster == 2

\* the lists of at most n logins over a set of logins
RECURSIVE Rosters(_, _)
Rosters(logins, n) ==
    IF n = 0 THEN {<<>>}
    ELSE LET shorter == Rosters(logins, n - 1)
         IN shorter \cup {Append(r, l) : r \in {x \in shorter : Len(x) = n - 1},
                                         l \in logins}

MemberLogins == {LoginAB, LoginABUpper, LoginCD}
MemberTokens == {UserAB, UserABUpper, UserCD, EmailAB}

\* a login names one account whatever its case: a roster holds it once
OneCasePerLogin(roster) ==
    \A i, j \in DOMAIN roster : CaseFold(roster[i]) = CaseFold(roster[j]) => i = j

\* the contractors team is a team of the organization: its members are
\* organization members, with the same logins
MemberInputs ==
    {in \in [codeowner : MemberTokens,
             members : Rosters(MemberLogins, MaxRoster),
             contractors_team : {NoTeam} \cup
                 {TeamObject(ContractorsSlug, "pull", r, <<>>) :
                      r \in Rosters(MemberLogins, MaxRoster)}] :
        /\ OneCasePerLogin(in.members)
        /\ OneCasePerLogin(in.contractors_team.members)
        /\ Range(in.contractors_team.members) \subseteq Range(in.members)}

InitMember ==
    /\ pc = "call_get_org_members"
    /\ key = "base"
    /\ org_login = OrgLogin
    /\ base_branch = InitialBase
    /\ compare_branch = InitialCompare
    /\ LocalsUnset
    /\ printed = <<>>
    /\ exit_status = -1
    /\ reads = <<>>
    /\ input \in MemberInputs
    /\ result = NoMessage

\* line 312
CallGetOrgMembers ==
    /\ pc = "call_get_org_members"
    /\ org_members' = get_org_members(input.members)
    /\ pc' = "call_get_team_members"
    /\ UNCHANGED <<key, org_login, branchVars, parseVars, contractors_team, repo_teams,
                   contractor_members, loopVars, printed, exit_status, reads, fnVars>>

\* lines 314 and 316
CallGetTeamMembers ==
    /\ pc = "call_get_team_members"
    /\ contractors_team' = input.contractors_team
    /\ contractor_members' = IF input.contractors_team # NoTeam
                             THEN get_team_members(input.contractors_team) ELSE <<>>
    /\ pc' = "call_check_codeowner"
    /\ UNCHANGED <<key, org_login, branchVars, parseVars, org_members, repo_teams,
                   loopVars, printed, exit_status, reads, fnVars>>

\* lines 322-343 for the codeowner
CallCheckOneCodeowner ==
    /\ pc = "call_check_codeowner"
    /\ result' = CheckOneCodeowner(1, input.codeowner, org_login, org_members,
                                   repo_teams, contractors_team, contractor_members)
    /\ pc' = "return"
    /\ UNCHANGED <<key, org_login, branchVars, parseVars, rosterVars, loopVars,
                   printed, exit_status, reads, input>>

NextMember == CallGetOrgMembers \/ CallGetTeamMembers \/ CallCheckOneCodeowner

SpecMember == InitMember /\ [][NextMember]_vars

\* the login a username or email token resolves to, case-folded; empty if none
ResolvedLogin(token, members) ==
    LET codeowner == CaseFold(token)
        username == IF CodeownerEmail(codeowner)
                    THEN get_username_from_email(codeowner, get_org_members(members))
                    ELSE codeowner
    IN IF username = <<>> THEN <<>> ELSE Tail(username)

SameLogin(a, b) == CaseFold(a) = CaseFold(b)

\* C6: a username or email token is accepted only if it resolves to the login
\* of a current organization member who is not a member of the contractors
\* team, logins being compared without regard to case.
C6_NoContractorAccepted ==
    (pc = "return" /\ result = NoMessage) =>
        LET login == ResolvedLogin(input.codeowner, input.members)
        IN /\ \E i \in DOMAIN input.members : SameLogin(input.members[i], login)
           /\ \A i \in DOMAIN input.contractors_team.members :
                 ~SameLogin(input.contractors_team.members[i], login)

(***************************************************************************)
(* get_username_from_email on its own                                      *)
(***************************************************************************)
EmailAC == <<"a",".","c">> \o EmailDomain

EmailLogins ==
    { LoginAB,
      <<"a","-","b","2","-","s","p">>,
      <<"a","-","b","-","x">>,
      <<"a","-","c","-","s","p">>,
      <<"a","b","-","s","p">>,
      <<"a","-","x","-","b","-","s","p">> }

EmailInputs == [email : {EmailAB, EmailAC}, org_members : Rosters(EmailLogins, MaxRoster)]

InitEmail ==
    /\ pc = "call_get_username_from_email"
    /\ key = "base"
    /\ org_login = OrgLogin
    /\ base_branch = InitialBase
    /\ compare_branch = InitialCompare
    /\ LocalsUnset
    /\ printed = <<>>
    /\ exit_status = -1
    /\ reads = <<>>
    /\ input \in EmailInputs
    /\ result = NoneStr

CallGetUsernameFromEmail ==
    /\ pc = "call_get_username_from_email"
    /\ result' = get_username_from_email(input.email, input.org_members)
    /\ pc' = "return"
    /\ UNCHANGED <<key, org_login, branchVars, parseVars, rosterVars, loopVars,
                   printed, exit_status, reads, input>>

NextEmail == CallGetUsernameFromEmail

SpecEmail == InitEmail /\ [][NextEmail]_vars

\* a name component without its trailing digits
RECURSIVE StripTrailingDigits(_)
StripTrailingDigits(s) ==
    IF s # <<>> /\ IsDigit(s[Len(s)]) THEN StripTrailingDigits(SubSeq(s, 1, Len(s) - 1))
    ELSE s

\* the name components of a login: a trailing "sp" segment removed, then the
\* trailing digits of each component
LoginName(login) ==
    LET parts == Split(CaseFold(login), "-")
        kept == IF parts[Len(parts)] = <<"s","p">> THEN SubSeq(parts, 1, Len(parts) - 1)
                ELSE parts
    IN [i \in DOMAIN kept |-> StripTrailingDigits(kept[i])]

LoginMatchesEmail(login, email) ==
    LET name == LoginName(login)
        local == Split(Split(CaseFold(email), "@")[1], ".")
    IN /\ name # <<>>
       /\ name[1] = local[1]
       /\ name[Len(name)] = local[Len(local)]

\* C7: get_username_from_email returns @login for the first login of the list
\* that matches the email after removing a trailing -sp segment and the
\* trailing digits of each name component, and None iff no login matches.
C7_FirstMatchingLogin ==
    pc = "return" =>
        LET matching == {i \in DOMAIN input.org_members :
                            LoginMatchesEmail(input.org_members[i], input.email)}
        IN IF matching = {} THEN result = NoneStr
           ELSE result = <<"@">> \o input.org_members[MinOf(matching)]

(***************************************************************************)
(* Line numbers of the parser within a run of main                         *)
(***************************************************************************)
\* the positions, in the raw content, of the lines that are rules
RawRuleLines(content) ==
    {i \in DOMAIN RawLines(content) : IsRuleLine(RawLines(content)[i])}

\* the line of the raw content at position k holds the tokens recorded under
\* key k, with or without its first token
RecordedAt(content, k, tokens) ==
    /\ k \in RawRuleLines(content)
    /\ LET raw == FilterNone(Split(RawLines(content)[k], " "))
       IN tokens = raw \/ tokens = Tail(raw)

\* C11: every key of the line mappings and every line number cited in a
\* branch's message is the 1-based position of that line in the raw content,
\* blank lines counted, and a parse that ran to the end maps exactly the lines
\* that are not empty, not whitespace-only and do not begin with # or [.
C11_KeysAreRawPositions ==
    (BranchFinished /\ BranchDict.exists /\ codeowners_lines_dict # <<>>)
        => /\ \A k \in DOMAIN codeowners_lines_dict :
                 /\ k \in DOMAIN RawLines(codeowners_content)
                 /\ RawLines(codeowners_content)[k] = codeowners_lines_dict[k]
           /\ \A k \in DOMAIN codeowners_only_dict :
                 RecordedAt(codeowners_content, k, codeowners_only_dict[k])
           /\ BranchDict.message.line # 0 =>
                 BranchDict.message.line \in RawRuleLines(codeowners_content)
           /\ invalid_syntax_line = 0 =>
                 DOMAIN codeowners_only_dict = RawRuleLines(codeowners_content)

(***************************************************************************)
(* The parser applied to one rule line: first element and one codeowner    *)
(***************************************************************************)
MaxFirstLen == 3

FirstElementChars == {"@", "a", "-", "/", "."}

\* the path of the rule "docs/getting-started @a-b-sp"
HyphenPath ==
    <<"d","o","c","s","/","g","e","t","t","i","n","g","-","s","t","a","r","t","e","d">>

FirstElements ==
    UNION {[1..n -> FirstElementChars] : n \in 1..MaxFirstLen}
        \cup {HyphenPath, EmailAB, TeamTM, UserAB, Splat}

FirstElementInputs == [first : FirstElements, codeowner : {UserAB}]

InitFirstElement ==
    /\ pc = "call_get_codeowner_lines_dict"
    /\ key = "base"
    /\ org_login = OrgLogin
    /\ base_branch = InitialBase
    /\ compare_branch = InitialCompare
    /\ LocalsUnset
    /\ printed = <<>>
    /\ exit_status = -1
    /\ reads = <<>>
    /\ input \in FirstElementInputs
    /\ result = NoMessage

\* line 290 of main, on the content that is the one rule line
CallGetCodeownerLinesDict ==
    /\ pc = "call_get_codeowner_lines_dict"
    /\ codeowners_content' = Line(<<input.first, input.codeowner>>)
    /\ codeowners_lines_dict' = get_codeowner_lines_dict(codeowners_content')
    /\ pc' = "call_get_codeowners_only"
    /\ UNCHANGED <<key, org_login, branchVars, codeowners_only_dict, invalid_syntax_line,
                   splat_line, rosterVars, loopVars, printed, exit_status, reads, fnVars>>

\* line 297 of main
CallGetCodeownersOnly ==
    /\ pc = "call_get_codeowners_only"
    /\ LET parsed == get_codeowners_only(codeowners_lines_dict)
       IN /\ codeowners_only_dict' = parsed.only
          /\ invalid_syntax_line' = parsed.invalid_syntax_line
          /\ splat_line' = parsed.splat_line
    /\ pc' = "return"
    /\ UNCHANGED <<key, org_login, branchVars, codeowners_content, codeowners_lines_dict,
                   rosterVars, loopVars, printed, exit_status, reads, fnVars>>

NextFirstElement == CallGetCodeownerLinesDict \/ CallGetCodeownersOnly

SpecFirstElement == InitFirstElement /\ [][NextFirstElement]_vars

\* the three owner shapes, read generously: any token ending in the corporate
\* domain, any token @.../..., and @ followed by lowercase letters, digits and
\* at least one hyphen
OwnerShapeEmail(token) == EndsWithDomain(token)

OwnerShapeTeam(token) == token[1] = "@" /\ \E k \in 2..Len(token) : token[k] = "/"

OwnerShapeUsername(token) ==
    /\ token[1] = "@"
    /\ \A k \in 2..Len(token) : IsLowerDigitHyphen(token[k])
    /\ \E k \in 2..Len(token) : token[k] = "-"

OwnerShape(token) ==
    OwnerShapeEmail(token) \/ OwnerShapeTeam(token) \/ OwnerShapeUsername(token)

\* C12: the parser halts at a rule line of two tokens, with a syntax error at
\* that line, only if the first token has one of the three owner shapes; any
\* other first token is stripped as the path and the line is parsed through.
C12_OnlyOwnerShapesHalt ==
    pc = "return" =>
        /\ invalid_syntax_line # 0 => OwnerShape(input.first)
        /\ ~OwnerShape(input.first) =>
              /\ invalid_syntax_line = 0
              /\ codeowners_only_dict[1] = <<input.codeowner>>

(***************************************************************************)
(* The order of the stages within a run of main                            *)
(***************************************************************************)
\* the stage of main that issues a read
StageOf(op) ==
    CASE op = "get_organization" -> 0
      [] op \in {"get_root_contents", "get_pull_commits"} -> 1
      [] op = "get_contents" -> 2
      [] op = "get_members" -> 3
      [] op = "get_team_by_slug" -> 4
      [] op = "get_teams" -> 5
      [] op = "get_team_members" -> 6

\* the stages of the reads issued so far for a branch
StagesRead(branch_key) ==
    {StageOf(reads[i].op) : i \in {j \in DOMAIN reads : reads[j].key = branch_key}} \ {0}

BranchOf(branch_key) == IF branch_key = "base" THEN base_branch ELSE compare_branch

FileAbsentTexts == {NotExistMessage.text, NotFoundInPRMessage.text}

FileCheckTexts ==
    {EmptyFileMessage.text, NoSplatMessage.text, LineSyntaxMessage(0, <<>>).text}

\* the message the file checks of lines 292-309 leave, taken in their order:
\* non-empty, wildcard, syntax
FirstFailedFileCheck ==
    IF codeowners_lines_dict = <<>> THEN EmptyFileMessage.text
    ELSE IF ~splat_line THEN NoSplatMessage.text
    ELSE LineSyntaxMessage(0, <<>>).text

\* the reads are in stage order: base before compare, and within a branch
\* each stage after the one before it, team rosters of the owner loop last
ReadsInStageOrder ==
    /\ \A i, j \in DOMAIN reads :
          i < j =>
             /\ reads[i].key = "compare" => reads[j].key = "compare"
             /\ reads[i].key = reads[j].key =>
                   \/ StageOf(reads[i].op) < StageOf(reads[j].op)
                   \/ StageOf(reads[i].op) = 6 /\ StageOf(reads[j].op) = 6
    /\ \A i \in DOMAIN reads :
          /\ StageOf(reads[i].op) = 0 <=> i = 1
          /\ StageOf(reads[i].op) >= 1 =>
                /\ i > 1
                /\ reads[i - 1].status # "error"
                /\ \/ StageOf(reads[i - 1].op) = StageOf(reads[i].op) - 1
                   \/ StageOf(reads[i].op) = 1
                   \/ StageOf(reads[i - 1].op) = 6 /\ StageOf(reads[i].op) = 6

\* a failed stage of a branch leaves its later stages unexecuted and the
\* branch invalid, and an absent compare file is the only skip
FailedStageEndsBranch ==
    /\ \A k \in {"base", "compare"} :
          /\ BranchOf(k).message.text \in FileAbsentTexts =>
                /\ StagesRead(k) = {1}
                /\ ~BranchOf(k).exists /\ ~BranchOf(k).valid_syntax
          /\ BranchOf(k).message.text \in FileCheckTexts =>
                /\ StagesRead(k) = {1, 2}
                /\ BranchOf(k).exists /\ ~BranchOf(k).valid_syntax
          /\ ~BranchOf(k).exists => StagesRead(k) \subseteq {1}
    /\ compare_branch.skip <=> compare_branch.message = NotFoundInPRMessage
    /\ (BranchFinished /\ BranchDict.exists /\ ~PassedSyntaxStage) =>
          BranchDict.message.text = FirstFailedFileCheck
    /\ (StagesRead(key) \cap 3..6 # {}) => PassedSyntaxStage

\* both passes of the for loop have ended
BothBranchesDone ==
    /\ key = "compare"
    /\ base_branch.message # NoMessage
    /\ compare_branch.message # NoMessage
    /\ StagesRead("base") # {} /\ StagesRead("compare") # {}

\* C13: the stages of a run happen in strict order. No read for the compare
\* branch precedes the end of the base pass, after which the base verdict no
\* longer changes; the rosters of a branch are fetched, in the order members,
\* contractors team, repository teams, contractor members, only after the
\* branch passed the existence, non-empty, wildcard and syntax checks; a failed
\* stage leaves the later stages of the branch unexecuted and the branch
\* invalid (skip for an absent compare file); the decision is taken only after
\* both branches are done.
C13_StagesInOrder ==
    /\ [](/\ ReadsInStageOrder
          /\ FailedStageEndsBranch
          /\ StagesRead("compare") # {} =>
                key = "compare" /\ base_branch.message # NoMessage
          /\ (pc = "decide" \/ printed # <<>>) => BothBranchesDone)
    /\ [][key = "compare" =>
            /\ base_branch'.exists = base_branch.exists
            /\ base_branch'.valid_syntax = base_branch.valid_syntax
            /\ base_branch'.message = base_branch.message]_vars

\* a decided run whose base branch went through every stage and whose compare
\* branch failed a file check
C13_Witness ==
    /\ pc = "exit" /\ printed # <<>>
    /\ StagesRead("base") = 1..6
    /\ StagesRead("compare") = {1, 2}
    /\ compare_branch.message.text = NoSplatMessage.text

(***************************************************************************)
(* What exit status 0 says about the file the base branch will hold        *)
(***************************************************************************)
\* the branch whose ownership file the base branch holds after the merge
MergedKey == IF compare_branch.skip THEN "base" ELSE "compare"

\* the pass over a branch went through every file check and roster fetch and
\* ended with the branch judged valid
JudgedValid(branch_key) ==
    /\ BranchOf(branch_key).exists
    /\ BranchOf(branch_key).valid_syntax
    /\ BranchOf(branch_key).message = ValidMessage
    /\ 1..5 \subseteq StagesRead(branch_key)

\* C14: a run that ends with exit status 0 judged valid the ownership file the
\* base branch will hold after the merge: the base file when the compare
\* branch is skipped, the compare file otherwise. No run exits 0 with an
\* evaluated compare file judged invalid, or with the compare branch skipped
\* and the base file missing or invalid.
C14_ExitZeroMergedFileValid ==
    /\ exit_status = 0 =>
          /\ pc = "exit" /\ printed # <<>>
          /\ JudgedValid(MergedKey)
          /\ compare_branch.skip => ~compare_branch.exists
    /\ (pc = "exit" /\ ~compare_branch.skip /\ ~CompareValid) => exit_status = 1
    /\ (pc = "exit" /\ compare_branch.skip /\ ~BaseValid) => exit_status = 1

\* exit 0 on a valid compare file over an invalid base file
C14_Witness ==
    /\ pc = "exit" /\ exit_status = 0
    /\ MergedKey = "compare" /\ JudgedValid("compare")
    /\ base_branch.exists /\ ~base_branch.valid_syntax

====
